---- MODULE Spec2Model ----
(***************************************************************************)
(* Model of the fast-reroute controller                                    *)
(* (07-Fast-Reroute/solution/controller.py, class RerouteController).      *)
(*                                                                         *)
(* Two specifications share the operators that model the route             *)
(* computation:                                                            *)
(*   Spec      the controller: failure notifications arrive in the sniff   *)
(*             buffer, process_packet handles them one at a time (dedup,   *)
(*             blocking delay, failed_links.add, update_nexthops);         *)
(*   PlanSpec  the route computation alone: a topology and a failure list  *)
(*             are drawn from bounded sets and update_nexthops is applied  *)
(*             step by step (compute_nexthops, compute_lfas, installation).*)
(***************************************************************************)
EXTENDS Integers, Sequences, FiniteSets, TLC

\* ------------------------------------------------------------------ bounds

\* Link weights are drawn from 1..MaxWeight.
MaxWeight == 2
\* Failure lists handed to the route computation in PlanSpec have at most
\* MaxFail elements.
MaxFail == 1
\* Number of packets the switches send to the cpu ports in one run of Spec.
MaxPkts == 3

\* ------------------------------------------------------------------ names

\* Node names in the order Python's sorted() puts them (string order).
NodeSeq == <<"h1", "h2", "h3", "s1", "s2", "s3", "s4">>

Rank(n) == CHOOSE i \in 1..Len(NodeSeq) : NodeSeq[i] = n

\* tuple(sorted([a, b]))
SortedPair(a, b) == IF Rank(a) <= Rank(b) THEN <<a, b>> ELSE <<b, a>>

\* The elements of a sequence, as a set.
Range(s) == {s[i] : i \in 1..Len(s)}

\* Position of x in the sequence s (list.index), 1-based.
IndexOf(s, x) == CHOOSE i \in 1..Len(s) : s[i] = x

\* The elements of the set S in sorted() order.
SortedSeq(S) == LET idx == {i \in 1..Len(NodeSeq) : NodeSeq[i] \in S}
                    F[k \in 0..Cardinality(idx)] ==
                      IF k = 0 THEN <<>>
                      ELSE LET prev == F[k - 1]
                               used == {Rank(prev[j]) : j \in 1..Len(prev)}
                               nxt == CHOOSE i \in idx \ used :
                                        \A j \in idx \ used : i <= j
                           IN Append(prev, NodeSeq[nxt])
                IN F[Cardinality(idx)]

\* The function f with every value computed (once).
Evaluated(f) == f @@ <<>>

\* s without its elements that are in S, order kept.
SeqMinus(s, S) == SelectSeq(s, LAMBDA x : x \notin S)

\* ------------------------------------------------------------------ topology

\* A topology as load_topo returns it: the switches, the hosts, and the links
\* in the order the graph received them.  A link is <<a, b, weight>>.
\* adj[n] is the adjacency dict of n: its neighbours in insertion order;
\* w maps the unordered edge (as a sorted pair) to its 'weight' attribute.
RECURSIVE AdjOf(_, _)
AdjOf(links, n) ==
  IF links = <<>> THEN <<>>
  ELSE LET l == Head(links)
           rest == AdjOf(Tail(links), n)
       IN IF l[1] = n THEN <<l[2]>> \o rest
          ELSE IF l[2] = n THEN <<l[1]>> \o rest
          ELSE rest

MkTopo(switches, hosts, links) ==
  [switches |-> switches,
   hosts |-> hosts,
   adj |-> [n \in switches \cup hosts |-> AdjOf(links, n)],
   w |-> [e \in {SortedPair(links[i][1], links[i][2]) : i \in 1..Len(links)} |->
            LET i == CHOOSE j \in 1..Len(links) :
                       SortedPair(links[j][1], links[j][2]) = e
            IN links[i][3]]]

\* topo.get_p4switches_connected_to(switch): the switches adjacent to switch
\* in the base topology.
get_p4switches_connected_to(t, switch) ==
  {n \in Range(t.adj[switch]) : n \in t.switches}

\* topo.node_to_node_port_num(node, nexthop_node): ports are numbered from 1
\* in the order the links of node were added.
get_port(t, node, nexthop_node) == IndexOf(t.adj[node], nexthop_node)

\* topo.port_to_node(switch, port): the node behind a port.
port_to_node(t, switch, port) == t.adj[switch][port]

\* sorted(list(self.topo.get_hosts().keys())).index(host), 0-based.
get_nexthop_index(t, host) == IndexOf(SortedSeq(t.hosts), host) - 1

\* ------------------------------------------------------------------ dijkstra

\* graph.remove_edge(u, v) on the copy: the edge leaves both adjacency dicts.
\* networkx raises NetworkXError when the edge is not in the graph.
HasEdge(g, f) == SortedPair(f[1], f[2]) \in DOMAIN g.w

\* Variant: the edge stays in the graph.
RemoveEdge_Noop(g, f) == g

RemoveEdge(g, f) ==
  LET e == SortedPair(f[1], f[2])
  IN [adj |-> Evaluated([n \in DOMAIN g.adj |->
                 IF n = e[1] THEN SeqMinus(g.adj[n], {e[2]})
                 ELSE IF n = e[2] THEN SeqMinus(g.adj[n], {e[1]})
                 ELSE g.adj[n]]),
      w |-> Evaluated([x \in (DOMAIN g.w) \ {e} |-> g.w[x]])]

\* Variant: the failed links stay in the graph.
RemoveAll_Keep(g, failures) == [raised |-> FALSE, g |-> g]

\* for failure in failures: graph.remove_edge(*failure)
\* failures is a list; the result is [raised, g].
RECURSIVE RemoveAll(_, _)
RemoveAll(g, failures) ==
  IF failures = <<>> THEN [raised |-> FALSE, g |-> g]
  ELSE IF ~HasEdge(g, Head(failures)) THEN [raised |-> TRUE, g |-> g]
  ELSE RemoveAll(RemoveEdge(g, Head(failures)), Tail(failures))

\* Variant: the entry with the greatest distance.
HeapMin_Greatest(fringe) ==
  CHOOSE x \in fringe :
    \A y \in fringe : x[1] > y[1] \/ (x[1] = y[1] /\ x[2] <= y[2])

\* The heap entry heappop returns: the least (distance, counter, node).
HeapMin(fringe) ==
  CHOOSE x \in fringe :
    \A y \in fringe : x[1] < y[1] \/ (x[1] = y[1] /\ x[2] <= y[2])

\* The loop over the neighbours of v (for u, e in G_succ[v].items()):
\* u is pushed, and its path replaced, when it is unseen or strictly nearer.
\* (With weights >= 0 a finished node is never improved, so the
\* "Contradictory paths" branch is not taken.)
RECURSIVE Relax(_, _, _, _)
Relax(g, st, v, i) ==
  IF i > Len(g.adj[v]) THEN st
  ELSE LET u == g.adj[v][i]
           vu_dist == st.dist[v] + g.w[SortedPair(v, u)]
       IN IF u \in DOMAIN st.dist THEN Relax(g, st, v, i + 1)
          ELSE IF u \notin DOMAIN st.seen \/ vu_dist < st.seen[u]
          THEN Relax(g,
                     [st EXCEPT
                        !.seen = (u :> vu_dist) @@ st.seen,
                        !.fringe = st.fringe \cup {<<vu_dist, st.c, u>>},
                        !.c = st.c + 1,
                        !.paths = (u :> Append(st.paths[v], u)) @@ st.paths],
                     v, i + 1)
          ELSE Relax(g, st, v, i + 1)

\* while fringe: pop, skip finished nodes, finish v, relax its neighbours.
RECURSIVE DijkstraLoop(_, _)
DijkstraLoop(g, st) ==
  IF st.fringe = {} THEN st
  ELSE LET top == HeapMin(st.fringe)
           v == top[3]
           popped == [st EXCEPT !.fringe = st.fringe \ {top}]
       IN IF v \in DOMAIN st.dist THEN DijkstraLoop(g, popped)
          ELSE DijkstraLoop(g,
                 Relax(g, [popped EXCEPT !.dist = (v :> top[1]) @@ st.dist],
                       v, 1))

\* single_source_dijkstra(G, source): (distances, paths) of the nodes reachable
\* from source.
SingleSource(g, source) ==
  DijkstraLoop(g, [dist |-> <<>>,
                   seen |-> (source :> 0),
                   paths |-> (source :> <<source>>),
                   fringe |-> {<<0, 0, source>>},
                   c |-> 1])

\* Variant: no copy is made, the edges are removed from self.topo itself.
WorkingGraph_NoCopy(t) == [g |-> [adj |-> t.adj, w |-> t.w], shared |-> TRUE]

\* graph = self.topo; graph = graph.copy(): the graph the edges are removed
\* from, and whether it is the object self.topo.
WorkingGraph(t) == [g |-> [adj |-> t.adj, w |-> t.w], shared |-> FALSE]

\* self.topo after dijkstra(failures): as it was when the edges were removed
\* from a copy, without them when they were removed from self.topo itself.
TopoAfter(t, failures) ==
  IF WorkingGraph(t).shared
  THEN [t EXCEPT !.adj = RemoveAll(WorkingGraph(t).g, failures).g.adj,
                 !.w = RemoveAll(WorkingGraph(t).g, failures).g.w]
  ELSE t

\* RerouteController.dijkstra(failures): copy the graph, remove the failed
\* links, all_pairs_dijkstra.  failures = None behaves as the empty list
\* (the graph itself is used, nothing is removed).
\* [raised, distances, paths, topo]; distances[n] and paths[n] hold only the
\* nodes n reaches (a missing key is a KeyError for the caller); topo is
\* self.topo as the call leaves it.
dijkstra(t, failures) ==
  LET rem == RemoveAll(WorkingGraph(t).g, failures)
  IN IF rem.raised
     THEN [raised |-> TRUE, distances |-> <<>>, paths |-> <<>>,
           topo |-> TopoAfter(t, failures)]
     ELSE LET res == Evaluated([n \in DOMAIN t.adj |-> SingleSource(rem.g, n)])
          IN [raised |-> FALSE,
              distances |-> Evaluated([n \in DOMAIN t.adj |-> res[n].dist]),
              paths |-> Evaluated([n \in DOMAIN t.adj |-> res[n].paths]),
              topo |-> TopoAfter(t, failures)]

\* ------------------------------------------------------------------ next hops

\* The hosts in the order compute_nexthops visits them (topo.get_hosts()).
HostSeq(t) == SortedSeq(t.hosts)

\* Variant: the hop before the host (path[-2]) instead of path[1].
compute_nexthops_LastHop(t, failures) ==
  LET dj == dijkstra(t, failures)
      all_shortest_paths == dj.paths
      entries(switch) ==
        LET reach == SelectSeq(HostSeq(t),
                       LAMBDA host : host \in DOMAIN all_shortest_paths[switch])
        IN [k \in 1..Len(reach) |->
              <<reach[k],
                all_shortest_paths[switch][reach[k]]
                  [Len(all_shortest_paths[switch][reach[k]]) - 1]>>]
  IN IF dj.raised
     THEN [raised |-> TRUE, results |-> <<>>, tables |-> dj,
           topo |-> TopoAfter(t, failures)]
     ELSE [raised |-> FALSE,
           results |-> [switch \in t.switches |-> entries(switch)],
           tables |-> dj,
           topo |-> TopoAfter(t, failures)]

\* RerouteController.compute_nexthops(failures): per switch the list of
\* (host, nexthop) with nexthop = path[1]; a host the switch cannot reach
\* (KeyError on all_shortest_paths[switch][host]) is skipped.
\* [raised, results, tables, topo]; raised when dijkstra raised; tables is
\* what dijkstra returned, kept for the properties that read it; topo is
\* self.topo as the call leaves it.
compute_nexthops(t, failures) ==
  LET dj == dijkstra(t, failures)
      all_shortest_paths == dj.paths
      entries(switch) ==
        LET reach == SelectSeq(HostSeq(t),
                       LAMBDA host : host \in DOMAIN all_shortest_paths[switch])
        IN [k \in 1..Len(reach) |->
              <<reach[k], all_shortest_paths[switch][reach[k]][2]>>]
  IN IF dj.raised
     THEN [raised |-> TRUE, results |-> <<>>, tables |-> dj,
           topo |-> TopoAfter(t, failures)]
     ELSE [raised |-> FALSE,
           results |-> [switch \in t.switches |-> entries(switch)],
           tables |-> dj,
           topo |-> TopoAfter(t, failures)]

\* ------------------------------------------------------------------ LFAs

\* Variants of the condition: not strict; always true.
LoopFreeCond_NotStrict(_d, alternate, switch, host) ==
  _d[alternate][host] <= _d[alternate][switch] + _d[switch][host]

LoopFreeCond_Always(_d, alternate, switch, host) == TRUE

\* The condition D(N, D) < D(N, S) + D(S, D) of compute_lfas.
LoopFreeCond(_d, alternate, switch, host) ==
  _d[alternate][host] < _d[alternate][switch] + _d[switch][host]

\* Variant: the first loop-free candidate, whatever its distance.
MinNoloop_First(noloop) == noloop[1][1]

\* min(noloop, key=lambda x: x[1])[0]: the first element of the list with
\* the least total distance.
MinNoloop(noloop) ==
  LET i == CHOOSE k \in 1..Len(noloop) :
             /\ \A j \in 1..Len(noloop) : noloop[k][2] <= noloop[j][2]
             /\ \A j \in 1..(k - 1) : noloop[j][2] > noloop[k][2]
  IN noloop[i][1]

\* The reads of _d one iteration makes; a missing key raises KeyError.
LfaKeysPresent(_d, alternate, switch, host) ==
  /\ host \in DOMAIN _d[alternate]
  /\ switch \in DOMAIN _d[alternate]
  /\ host \in DOMAIN _d[switch]

\* for alternate in others: ... as written in the source: the test of the
\* condition, then "if not noloop: continue", then the assignment of
\* switch_lfas[host], all three inside the loop.
\* others is the list of candidates in iteration order, lfa the value of
\* switch_lfas[host] so far (<<>> when the key is not set).
\* [raised, lfa].
RECURSIVE LfaScan(_, _, _, _, _, _, _)
LfaScan(_d, switch, host, others, i, noloop, lfa) ==
  IF i > Len(others) THEN [raised |-> FALSE, lfa |-> lfa]
  ELSE LET alternate == others[i]
       IN IF ~LfaKeysPresent(_d, alternate, switch, host)
          THEN [raised |-> TRUE, lfa |-> <<>>]
          ELSE LET noloop2 ==
                     IF LoopFreeCond(_d, alternate, switch, host)
                     THEN Append(noloop,
                                 <<alternate,
                                   _d[switch][alternate] + _d[alternate][host]>>)
                     ELSE noloop
               IN IF noloop2 = <<>>
                  THEN LfaScan(_d, switch, host, others, i + 1, noloop2, lfa)
                  ELSE LfaScan(_d, switch, host, others, i + 1, noloop2,
                               <<MinNoloop(noloop2)>>)

\* others = connected - {nexthop}, in the order the set is iterated.
\* order lists all switches in the iteration order of this run.
Others(t, switch, nexthop, order) ==
  SelectSeq(order,
            LAMBDA n : n \in get_p4switches_connected_to(t, switch) \ {nexthop})

\* RerouteController.compute_lfas(nexthops, failures): per switch a dict
\* host -> alternate.  Pairs with nexthop == host are skipped.
\* [raised, lfas, topo]; raised when dijkstra raised or a distance is missing;
\* topo is self.topo as the call leaves it.
compute_lfas(t, nexthops, failures, order) ==
  LET dj == dijkstra(t, failures)
      _d == dj.distances
      scan(switch, k) ==
        LET host == nexthops[switch][k][1]
            nexthop == nexthops[switch][k][2]
        IN IF nexthop = host THEN [raised |-> FALSE, lfa |-> <<>>]
           ELSE LfaScan(_d, switch, host, Others(t, switch, nexthop, order),
                        1, <<>>, <<>>)
      scans == Evaluated([switch \in DOMAIN nexthops |->
                 Evaluated([k \in 1..Len(nexthops[switch]) |-> scan(switch, k)])])
      found(switch) == {k \in DOMAIN scans[switch] : scans[switch][k].lfa # <<>>}
  IN IF dj.raised \/ \E switch \in DOMAIN nexthops :
                        \E k \in DOMAIN scans[switch] : scans[switch][k].raised
     THEN [raised |-> TRUE, lfas |-> <<>>, topo |-> TopoAfter(t, failures)]
     ELSE [raised |-> FALSE,
           lfas |-> [switch \in DOMAIN nexthops |->
                       [host \in {nexthops[switch][k][1] : k \in found(switch)} |->
                          LET k == CHOOSE j \in found(switch) :
                                     nexthops[switch][j][1] = host
                          IN scans[switch][k].lfa[1]]],
           topo |-> TopoAfter(t, failures)]

\* ------------------------------------------------------------------ install

\* Variant: the backup is written for every destination, the directly
\* attached host included.
InstallSwitch_NoSkip(t, reg, switch, destinations, switch_lfas) ==
  LET dest(idx) == CHOOSE k \in 1..Len(destinations) :
                     get_nexthop_index(t, destinations[k][1]) = idx
      written == {get_nexthop_index(t, destinations[k][1]) :
                    k \in 1..Len(destinations)}
      backed == {get_nexthop_index(t, destinations[k][1]) :
                   k \in 1..Len(destinations)}
  IN [primaryNH |->
        [idx \in DOMAIN reg.primaryNH |->
           IF idx \in written
           THEN get_port(t, switch, destinations[dest(idx)][2])
           ELSE reg.primaryNH[idx]],
      alternativeNH |->
        [idx \in DOMAIN reg.alternativeNH |->
           IF idx \in backed
           THEN LET host == destinations[dest(idx)][1]
                    nexthop == destinations[dest(idx)][2]
                    lfa_nexthop == IF host \in DOMAIN switch_lfas
                                   THEN switch_lfas[host] ELSE nexthop
                IN get_port(t, switch, lfa_nexthop)
           ELSE reg.alternativeNH[idx]]]

\* The register writes of update_nexthops for one switch: primaryNH for every
\* destination; alternativeNH for every destination whose next hop is not the
\* host itself, with the LFA's port, or the primary's port when lfas has no
\* entry (KeyError -> fallback).
InstallSwitch(t, reg, switch, destinations, switch_lfas) ==
  LET dest(idx) == CHOOSE k \in 1..Len(destinations) :
                     get_nexthop_index(t, destinations[k][1]) = idx
      written == {get_nexthop_index(t, destinations[k][1]) :
                    k \in 1..Len(destinations)}
      backed == {get_nexthop_index(t, destinations[k][1]) :
                   k \in {j \in 1..Len(destinations) :
                            destinations[j][1] # destinations[j][2]}}
  IN [primaryNH |->
        [idx \in DOMAIN reg.primaryNH |->
           IF idx \in written
           THEN get_port(t, switch, destinations[dest(idx)][2])
           ELSE reg.primaryNH[idx]],
      alternativeNH |->
        [idx \in DOMAIN reg.alternativeNH |->
           IF idx \in backed
           THEN LET host == destinations[dest(idx)][1]
                    nexthop == destinations[dest(idx)][2]
                    lfa_nexthop == IF host \in DOMAIN switch_lfas
                                   THEN switch_lfas[host] ELSE nexthop
                IN get_port(t, switch, lfa_nexthop)
           ELSE reg.alternativeNH[idx]]]

Install(t, registers, nexthops, lfas) ==
  [switch \in DOMAIN registers |->
     InstallSwitch(t, registers[switch], switch, nexthops[switch], lfas[switch])]

\* RerouteController.update_nexthops(failures): compute_nexthops, then
\* compute_lfas, then the register writes.  An exception of either computation
\* leaves the registers as they were.
\* [raised, registers, topo]; topo is self.topo as the call leaves it.
update_nexthops(t, registers, failures, order) ==
  LET nh == compute_nexthops(t, failures)
      t1 == TopoAfter(t, failures)
      lf == compute_lfas(t1, nh.results, failures, order)
      t2 == TopoAfter(t1, failures)
  IN IF nh.raised
     THEN [raised |-> TRUE, registers |-> registers, topo |-> t1]
     ELSE IF lf.raised
     THEN [raised |-> TRUE, registers |-> registers, topo |-> t2]
     ELSE [raised |-> FALSE,
           registers |-> Install(t2, registers, nh.results, lf.lfas),
           topo |-> t2]

\* reset_states(): every register cell is 0.
ResetRegisters(t) ==
  [switch \in t.switches |->
     [primaryNH |-> [idx \in 0..(Cardinality(t.hosts) - 1) |-> 0],
      alternativeNH |-> [idx \in 0..(Cardinality(t.hosts) - 1) |-> 0]]]

\* ------------------------------------------------------------------ inputs

\* A set as a list (list(self.failed_links)); the order is not specified.
RECURSIVE ListOf(_)
ListOf(S) == IF S = {} THEN <<>>
             ELSE LET x == CHOOSE y \in S : TRUE
                  IN <<x>> \o ListOf(S \ {x})

\* The switch-to-switch links a topology may have, as sorted pairs, and the
\* host links every topology has.
SwitchPairs == <<<<"s1", "s2">>, <<"s1", "s3">>, <<"s1", "s4">>,
                 <<"s2", "s3">>, <<"s2", "s4">>>>

HostLinks == <<<<"h1", "s1", 1>>, <<"h2", "s2", 1>>>>

\* The links of the weight assignment wt (0: the link is absent).
RECURSIVE LinksOf(_, _)
LinksOf(wt, i) ==
  IF i > Len(SwitchPairs) THEN <<>>
  ELSE (IF wt[i] = 0 THEN <<>>
        ELSE <<<<SwitchPairs[i][1], SwitchPairs[i][2], wt[i]>>>>)
       \o LinksOf(wt, i + 1)

Connected(t) ==
  LET d == dijkstra(t, <<>>).distances
  IN \A n \in DOMAIN t.adj : DOMAIN d[n] = DOMAIN t.adj

\* The ring S1-S2-S3-S1 with a host at S1 and at S2, all weights 1.
Ring3 ==
  MkTopo({"s1", "s2", "s3"}, {"h1", "h2"},
         HostLinks \o <<<<"s1", "s2", 1>>, <<"s2", "s3", 1>>, <<"s1", "s3", 1>>>>)

\* The ring S1-S2-S3-S1 with one host per switch, all weights 1.
RingHosts ==
  MkTopo({"s1", "s2", "s3"}, {"h1", "h2", "h3"},
         HostLinks \o <<<<"h3", "s3", 1>>,
                        <<"s1", "s2", 1>>, <<"s2", "s3", 1>>, <<"s1", "s3", 1>>>>)

\* The links of the assignment wt with weights 0 and 1 (wt[i] = 0: the link
\* is absent, otherwise its weight is wt[i] - 1).
RECURSIVE ZeroLinksOf(_, _)
ZeroLinksOf(wt, i) ==
  IF i > Len(SwitchPairs) THEN <<>>
  ELSE (IF wt[i] = 0 THEN <<>>
        ELSE <<<<SwitchPairs[i][1], SwitchPairs[i][2], wt[i] - 1>>>>)
       \o ZeroLinksOf(wt, i + 1)

\* The connected topologies of four switches with a link of weight 0.
ZeroTopologies ==
  {t \in {MkTopo({"s1", "s2", "s3", "s4"}, {"h1", "h2"},
                 HostLinks \o ZeroLinksOf(wt, 1)) :
            wt \in {x \in [1..Len(SwitchPairs) -> 0..2] :
                      \E i \in 1..Len(SwitchPairs) : x[i] = 1}} : Connected(t)}

\* Every connected topology of four switches whose links are among
\* SwitchPairs, with weights in 1..MaxWeight, host h1 at s1 and host h2 at
\* s2; those with links of weight 0; and the rings.
Topologies ==
  {t \in {MkTopo({"s1", "s2", "s3", "s4"}, {"h1", "h2"},
                 HostLinks \o LinksOf(wt, 1)) :
            wt \in [1..Len(SwitchPairs) -> 0..MaxWeight]} : Connected(t)}
  \cup ZeroTopologies
  \cup {Ring3, RingHosts}

\* The topologies the controller is run on.
CtrlTopologies == {Ring3}

\* Iteration orders of a Python set of switch names.
IterOrders == {<<"s1", "s2", "s3", "s4">>, <<"s4", "s3", "s2", "s1">>}

\* The failure lists handed to the route computation: at most MaxFail links,
\* each a sorted pair, present in the topology or not.
FailureSets(t) ==
  {F \in SUBSET (Range(SwitchPairs) \cup {<<"h1", "s1">>, <<"h2", "s2">>}) :
     Cardinality(F) <= MaxFail}

\* ------------------------------------------------------------------ state

VARIABLES
  topo,          \* self.topo
  registers,     \* primaryNH / alternativeNH of every switch
  failed_links,  \* self.failed_links
  queue,         \* packets sniffed on the cpu ports, not yet handed to prn
  pc,            \* where the sniff loop is: sniff, sleep, update, crashed, off
  failed_link,   \* the local failed_link of the process_packet in progress
  calls,         \* every update_nexthops call so far: the link that caused
                 \* it (<<>> for the call of __init__) and its failures
  burst,         \* links notified before the first delay ended
  early,         \* links notified again while their own delay was running
  sent,          \* packets sent so far
  reported,      \* the (switch_name, neighbor) of every failure notification
                 \* process_packet has handled, as read before sorting
  failures,      \* PlanSpec: the failures argument
  stage,         \* PlanSpec: start, nexthops, lfas, installed,
                 \* raised_nexthops, raised_lfas; off in Spec
  tables,        \* PlanSpec: what dijkstra(failures) returned
  nexthops,      \* PlanSpec: what compute_nexthops returned
  lfas           \* PlanSpec: what compute_lfas returned

vars == <<topo, registers, failed_links, queue, pc, failed_link, calls,
          burst, early, sent, reported, failures, stage, tables, nexthops,
          lfas>>

ctrlVars == <<failed_links, queue, pc, failed_link, calls, burst, early, sent,
              reported>>

planVars == <<failures, stage, tables, nexthops, lfas>>

\* ------------------------------------------------------------------ packets

HEARTBEAT == 4660   \* 0x1234

\* A heartbeat packet as the switch sends it to its cpu port: the port in
\* bits 7..15 of the payload, the failed flag in bit 5.
HeartbeatPkt(sw, port, flag) ==
  [sniffed_on |-> sw, type |-> HEARTBEAT, payload |-> port * 128 + flag * 32]

\* failed_flag = (payload & 0x0020) >> 5
FailedFlag(payload) == (payload \div 32) % 2

\* port = (payload & 0xff80) >> 7
PortOf(payload) == (payload % 65536) \div 128

\* switch_name and neighbor of a packet: the switch of the interface it was
\* sniffed on and the node behind the port it names.
Endpoints(t, pkt) ==
  <<pkt.sniffed_on, port_to_node(t, pkt.sniffed_on, PortOf(pkt.payload))>>

\* Variant: the endpoints as read, not sorted.
LinkOf_Unsorted(t, pkt) == Endpoints(t, pkt)

\* The link a packet reports: tuple(sorted([switch_name, neighbor])).
LinkOf(t, pkt) ==
  SortedPair(pkt.sniffed_on, port_to_node(t, pkt.sniffed_on, PortOf(pkt.payload)))

\* Variant: no test for a known link.
IsNewFailure_NoDedup(t, known, pkt) ==
  /\ pkt.type = HEARTBEAT
  /\ FailedFlag(pkt.payload) = 1

\* process_packet up to the test of failed_link: TRUE when the packet is a
\* failure notification for a link that is not in failed_links.
IsNewFailure(t, known, pkt) ==
  /\ pkt.type = HEARTBEAT
  /\ FailedFlag(pkt.payload) = 1
  /\ LinkOf(t, pkt) \notin known

\* ------------------------------------------------------------------ controller

\* __init__: registers reset, failed_links empty, update_nexthops() run once
\* without failures, then the sniff loop starts.
Init ==
  /\ topo \in CtrlTopologies
  /\ registers \in {update_nexthops(topo, ResetRegisters(topo), <<>>, order).registers :
                      order \in IterOrders}
  /\ failed_links = {}
  /\ queue = <<>>
  /\ pc = "sniff"
  /\ failed_link = <<>>
  /\ calls = <<[link |-> <<>>, failures |-> {}]>>
  /\ burst = {}
  /\ early = {}
  /\ sent = 0
  /\ reported = {}
  /\ failures = <<>>
  /\ stage = "off"
  /\ tables = <<>>
  /\ nexthops = <<>>
  /\ lfas = <<>>

\* The ports of sw that carry heartbeats: those that face another switch.
HeartbeatPorts(t, sw) ==
  {port \in 1..Len(t.adj[sw]) : port_to_node(t, sw, port) \in t.switches}

\* A switch mirrors a heartbeat packet to its cpu port: a failure
\* notification (flag 1) or a plain heartbeat (flag 0) for one of its ports.
Notify(sw, port, flag) ==
  /\ stage = "off"
  /\ sent < MaxPkts
  /\ sent' = sent + 1
  /\ queue' = Append(queue, HeartbeatPkt(sw, port, flag))
  /\ burst' = IF flag = 1 /\ Len(calls) = 1
              THEN burst \cup {LinkOf(topo, HeartbeatPkt(sw, port, flag))}
              ELSE burst
  /\ early' = IF /\ flag = 1
                 /\ pc = "sleep"
                 /\ LinkOf(topo, HeartbeatPkt(sw, port, flag)) = failed_link
              THEN early \cup {failed_link}
              ELSE early
  /\ UNCHANGED <<topo, registers, failed_links, pc, failed_link, calls,
                 reported>>
  /\ UNCHANGED planVars

\* sniff hands the next packet to process_packet, which runs up to
\* time.sleep: a packet that is no new failure notification is done with.
Receive ==
  /\ pc = "sniff"
  /\ queue # <<>>
  /\ queue' = Tail(queue)
  /\ IF IsNewFailure(topo, failed_links, Head(queue))
     THEN /\ pc' = "sleep"
          /\ failed_link' = LinkOf(topo, Head(queue))
     ELSE UNCHANGED <<pc, failed_link>>
  /\ reported' = IF Head(queue).type = HEARTBEAT
                    /\ FailedFlag(Head(queue).payload) = 1
                 THEN reported \cup {Endpoints(topo, Head(queue))}
                 ELSE reported
  /\ UNCHANGED <<topo, registers, failed_links, calls, burst, early, sent>>
  /\ UNCHANGED planVars

\* Variant: the set is replaced.
AddLink_Replace(links, link) == {link}

\* self.failed_links.add(failed_link)
AddLink(links, link) == links \cup {link}

\* Variant: only the new link is passed on.
Snapshot_OnlyNew(links, link) == {link}

\* list(self.failed_links) as failure_notification receives it.
Snapshot(links, link) == links

\* time.sleep returns: failed_links.add(failed_link) and
\* failure_notification(list(self.failed_links)) is called.
Wake ==
  /\ pc = "sleep"
  /\ failed_links' = AddLink(failed_links, failed_link)
  /\ calls' = Append(calls, [link |-> failed_link,
                             failures |-> Snapshot(failed_links', failed_link)])
  /\ pc' = "update"
  /\ UNCHANGED <<topo, registers, queue, failed_link, burst, early, sent,
                 reported>>
  /\ UNCHANGED planVars

\* update_nexthops(failures) runs to its end; an exception leaves
\* process_packet and sniff, and the controller ends.
Update ==
  /\ pc = "update"
  /\ \E order \in IterOrders :
       \E r \in {update_nexthops(topo, registers,
                                 ListOf(calls[Len(calls)].failures), order)} :
         /\ registers' = r.registers
         /\ topo' = r.topo
         /\ pc' = IF r.raised THEN "crashed" ELSE "sniff"
  /\ failed_link' = <<>>
  /\ UNCHANGED <<failed_links, queue, calls, burst, early, sent, reported>>
  /\ UNCHANGED planVars

Next ==
  \/ \E sw \in topo.switches : \E port \in HeartbeatPorts(topo, sw) :
       \E flag \in {0, 1} : Notify(sw, port, flag)
  \/ Receive
  \/ Wake
  \/ Update

Spec == Init /\ [][Next]_vars

\* ------------------------------------------------------------------ plan

PlanInit ==
  /\ topo \in Topologies
  /\ registers = ResetRegisters(topo)
  /\ failed_links = {}
  /\ queue = <<>>
  /\ pc = "off"
  /\ failed_link = <<>>
  /\ calls = <<>>
  /\ burst = {}
  /\ early = {}
  /\ sent = 0
  /\ reported = {}
  /\ failures \in {ListOf(F) : F \in FailureSets(topo)}
  /\ stage = "start"
  /\ tables = <<>>
  /\ nexthops = <<>>
  /\ lfas = <<>>

\* nexthops = self.compute_nexthops(failures=failures)
PlanNexthops ==
  /\ stage = "start"
  /\ \E r \in {compute_nexthops(topo, failures)} :
        /\ topo' = r.topo
        /\ IF r.raised
           THEN /\ stage' = "raised_nexthops"
                /\ UNCHANGED <<tables, nexthops>>
           ELSE /\ stage' = "nexthops"
                /\ tables' = r.tables
                /\ nexthops' = r.results
  /\ UNCHANGED <<registers, failures, lfas>>
  /\ UNCHANGED ctrlVars

\* lfas = self.compute_lfas(nexthops, failures=failures)
PlanLfas ==
  /\ stage = "nexthops"
  /\ \E order \in IterOrders :
      \E r \in {compute_lfas(topo, nexthops, failures, order)} :
        /\ topo' = r.topo
        /\ IF r.raised
           THEN /\ stage' = "raised_lfas"
                /\ UNCHANGED lfas
           ELSE /\ stage' = "lfas"
                /\ lfas' = r.lfas
  /\ UNCHANGED <<registers, failures, tables, nexthops>>
  /\ UNCHANGED ctrlVars

\* The register writes of update_nexthops.
PlanInstall ==
  /\ stage = "lfas"
  /\ registers' = Install(topo, registers, nexthops, lfas)
  /\ stage' = "installed"
  /\ UNCHANGED <<topo, failures, tables, nexthops, lfas>>
  /\ UNCHANGED ctrlVars

PlanNext == PlanNexthops \/ PlanLfas \/ PlanInstall

PlanSpec == PlanInit /\ [][PlanNext]_vars

\* ------------------------------------------------------------------ properties of the controller

\* The links with a failure notification waiting in the sniff buffer.
QueuedLinks ==
  {LinkOf(topo, queue[i]) :
     i \in {j \in 1..Len(queue) : /\ queue[j].type = HEARTBEAT
                                  /\ FailedFlag(queue[j].payload) = 1}}

\* Receive, Wake or Update is enabled.
ListenerCanStep ==
  \/ pc = "sniff" /\ queue # <<>>
  \/ pc = "sleep"
  \/ pc = "update"

\* A recomputation was called with l in its failure list.
Recomputed(l) == \E i \in 1..Len(calls) : l \in calls[i].failures

\* C1: debounce coalescing.  The notifications that arrive before the first
\* delay has ended (burst) are answered by one recomputation, and the failure
\* list of that recomputation is the union of all of them: the first
\* recomputation after start-up is called with exactly the burst, and as long
\* as only links of the burst have been handled no second one is called.
C1_DebounceCoalescing ==
  /\ Len(calls) >= 2 => calls[2].failures = burst
  /\ failed_links \subseteq burst => Len(calls) <= 2

\* C2: no failure is dropped.  A notification for a link that is not known
\* yet and that waits in the buffer is eventually handled: the link is added
\* to failed_links and a recomputation follows.  With a sniff loop that is
\* scheduled fairly this needs the loop to be able to take a step whenever
\* such a notification waits; that is what is stated here.
C2_NoFailureDropped ==
  (\E l \in QueuedLinks : l \notin failed_links /\ l # failed_link)
    => ListenerCanStep

\* The step of process_packet for a failure notification of a known link.
DuplicateStep ==
  /\ pc = "sniff"
  /\ queue # <<>>
  /\ queue' = Tail(queue)
  /\ Head(queue).type = HEARTBEAT
  /\ FailedFlag(Head(queue).payload) = 1
  /\ LinkOf(topo, Head(queue)) \in failed_links

\* C3: notifications are idempotent.  Handling a notification for a link
\* that is in failed_links leaves failed_links as it is, starts no delay and
\* calls no recomputation, and no two recomputations are attributable to the
\* same link; a duplicate that arrived during the delay of its own link is
\* handled after that delay, so it is such a step.
C3_Idempotence ==
  /\ [] (\A i, j \in 1..Len(calls) : calls[i].link = calls[j].link => i = j)
  /\ [][DuplicateStep =>
          /\ failed_links' = failed_links
          /\ pc' = "sniff"
          /\ calls' = calls]_vars

\* A duplicate arrived during the delay of its own link and has been handled.
C3_Witness ==
  /\ pc = "sniff"
  /\ queue = <<>>
  /\ \E l \in early : l \in failed_links

\* C4: one recomputation per change of the failure set.  There are as many
\* recomputations as changes of failed_links (one more, for the call of
\* __init__), the latest was called with the whole of failed_links, and the
\* failure lists of successive recomputations strictly increase.
C4_OneRecomputationPerChange ==
  /\ Len(calls) = Cardinality(failed_links) + 1
  /\ calls[Len(calls)].failures = failed_links
  /\ \A i \in 1..(Len(calls) - 1) :
       /\ calls[i].failures \subseteq calls[i + 1].failures
       /\ calls[i].failures # calls[i + 1].failures

\* Two changes of failed_links, each followed by its recomputation.
C4_Witness ==
  /\ Len(calls) = 3
  /\ Cardinality(failed_links) = 2
  /\ pc \in {"sniff", "crashed"}

\* C5: the failure set only grows.  failed_links starts empty and every step
\* leaves all its elements in it.
C5_FailureSetGrows ==
  /\ failed_links = {}
  /\ [][failed_links \subseteq failed_links']_vars

\* Two links have been added, one after the other.
C5_Witness == Cardinality(failed_links) = 2

\* The links reported so far, each as the set of its two endpoints.
ReportedLinks == {{r[1], r[2]} : r \in reported}

\* C16: edge identity is normalized.  Every element of failed_links is a
\* sorted endpoint pair, so failed_links never holds a link in both orders;
\* a link reported from both of its ends counts once: failed_links has no
\* more elements, and there are no more recomputations, than links reported.
C16_EdgeIdentityNormalized ==
  /\ \A l \in failed_links :
       /\ l = SortedPair(l[1], l[2])
       /\ l[1] # l[2]
       /\ <<l[2], l[1]>> \notin failed_links
  /\ Cardinality(failed_links) <= Cardinality(ReportedLinks)
  /\ Len(calls) - 1 <= Cardinality(ReportedLinks)

\* One link was reported by both of its endpoint switches and both
\* notifications have been handled: one element, one recomputation.
C16_Witness ==
  /\ pc = "sniff"
  /\ queue = <<>>
  /\ Cardinality(failed_links) = 1
  /\ Len(calls) = 2
  /\ \E l \in failed_links :
       <<l[1], l[2]>> \in reported /\ <<l[2], l[1]>> \in reported

\* ------------------------------------------------------------------ properties of the plan

\* The failure list as a set.
FailureSet == Range(failures)

\* compute_nexthops returned.
HasNexthops == stage \in {"nexthops", "lfas", "installed", "raised_lfas"}

\* compute_lfas returned.
HasLfas == stage \in {"lfas", "installed"}

\* The entries (host, nexthop) of a switch, as a set.
Destinations(switch) == Range(nexthops[switch])

\* The links a path uses.
PathLinks(path) == {SortedPair(path[i], path[i + 1]) : i \in 1..(Len(path) - 1)}

\* C6: no path of the path table, and no primary next-hop link, uses a
\* failed link.
C6_PathsAvoidFailures ==
  HasNexthops =>
    /\ \A src \in DOMAIN tables.paths : \A dst \in DOMAIN tables.paths[src] :
         /\ PathLinks(tables.paths[src][dst]) \cap FailureSet = {}
         /\ PathLinks(tables.paths[src][dst]) \subseteq DOMAIN topo.w
    /\ \A switch \in DOMAIN nexthops : \A d \in Destinations(switch) :
         SortedPair(switch, d[2]) \notin FailureSet

\* A link of the shortest path from s1 to h2 has failed and s1 still reaches
\* h2.
C6_Witness ==
  /\ stage = "nexthops"
  /\ FailureSet # {}
  /\ FailureSet \subseteq PathLinks(dijkstra(topo, <<>>).paths["s1"]["h2"])
  /\ "h2" \in DOMAIN tables.paths["s1"]

\* C7: every alternate compute_lfas returns satisfies
\* d(alt, host) < d(alt, switch) + d(switch, host) in the distance table of
\* the failure list, and is not the primary next hop.
C7_LfaCorrect ==
  HasLfas =>
    \A switch \in DOMAIN lfas : \A d \in Destinations(switch) :
      d[1] \in DOMAIN lfas[switch] =>
        LET alt == lfas[switch][d[1]]
            dist == tables.distances
        IN /\ dist[alt][d[1]] < dist[alt][switch] + dist[switch][d[1]]
           /\ alt # d[2]

\* An alternate was returned for a plan computed with a failed link.
C7_Witness ==
  /\ HasLfas
  /\ FailureSet # {}
  /\ \E switch \in DOMAIN lfas : DOMAIN lfas[switch] # {}

\* The neighbour switches of switch, other than the primary next hop, that
\* satisfy the loop-free inequality for host in the distance table.
LoopFreeCandidates(switch, host, nexthop) ==
  {c \in get_p4switches_connected_to(topo, switch) \ {nexthop} :
     /\ host \in DOMAIN tables.distances[c]
     /\ switch \in DOMAIN tables.distances[c]
     /\ tables.distances[c][host]
          < tables.distances[c][switch] + tables.distances[switch][host]}

\* d(switch, alt) + d(alt, host)
TotalDist(switch, alt, host) ==
  tables.distances[switch][alt] + tables.distances[alt][host]

\* C8: the alternate returned has the least d(switch, alt) + d(alt, host)
\* among the loop-free candidates, in whatever order they are visited.
C8_LfaMinimal ==
  HasLfas =>
    \A switch \in DOMAIN lfas : \A d \in Destinations(switch) :
      d[1] \in DOMAIN lfas[switch] =>
        \A c \in LoopFreeCandidates(switch, d[1], d[2]) :
          TotalDist(switch, lfas[switch][d[1]], d[1]) <= TotalDist(switch, c, d[1])

\* An alternate was chosen among two loop-free candidates of different
\* total distance.
C8_Witness ==
  /\ HasLfas
  /\ \E switch \in DOMAIN lfas : \E d \in Destinations(switch) :
       /\ d[1] \in DOMAIN lfas[switch]
       /\ \E c \in LoopFreeCandidates(switch, d[1], d[2]) :
            TotalDist(switch, lfas[switch][d[1]], d[1]) < TotalDist(switch, c, d[1])

\* compute_lfas returned an alternate for (switch, host).
Returned(switch, host) == HasLfas /\ host \in DOMAIN lfas[switch]

\* C9: full scan.  Once compute_lfas has run, it has returned an alternate
\* for (switch, host), primary next hop not the host, exactly when some
\* neighbour switch other than the primary satisfies the loop-free inequality.
C9_FullScan ==
  stage \in {"lfas", "installed", "raised_lfas"} =>
    \A switch \in DOMAIN nexthops : \A d \in Destinations(switch) :
      d[1] # d[2] =>
        (Returned(switch, d[1]) <=> LoopFreeCandidates(switch, d[1], d[2]) # {})

\* The same for the runs in which compute_lfas returns.
C9_FullScanWhenReturned ==
  HasLfas =>
    \A switch \in DOMAIN nexthops : \A d \in Destinations(switch) :
      d[1] # d[2] =>
        (Returned(switch, d[1]) <=> LoopFreeCandidates(switch, d[1], d[2]) # {})

\* The primary next hop of node n toward host; n itself when it has none.
Primary(n, host) ==
  IF n \in DOMAIN nexthops /\ \E d \in Destinations(n) : d[1] = host
  THEN (CHOOSE d \in Destinations(n) : d[1] = host)[2]
  ELSE n

\* The nodes a packet for host visits from node n on, following the primary
\* next hops for at most k hops.
RECURSIVE Trail(_, _, _)
Trail(n, host, k) ==
  IF n = host \/ k = 0 THEN {n}
  ELSE {n} \cup Trail(Primary(n, host), host, k - 1)

\* C10: a packet handed to the alternate of (switch, host) and forwarded
\* along the primary next hops of the same plan never visits switch.
C10_LfaForwardingLoopFree ==
  HasLfas =>
    \A switch \in DOMAIN lfas : \A host \in DOMAIN lfas[switch] :
      switch \notin Trail(lfas[switch][host], host, Cardinality(DOMAIN topo.adj))

\* An alternate that is not the switch of the host: the packet takes at least
\* two more hops.
C10_Witness ==
  /\ HasLfas
  /\ \E switch \in DOMAIN lfas : \E host \in DOMAIN lfas[switch] :
       /\ Primary(lfas[switch][host], host) # host
       /\ host \in Trail(lfas[switch][host], host, Cardinality(DOMAIN topo.adj))

\* The failure list cuts some node off from another: a distance is missing.
Disconnected ==
  /\ HasNexthops
  /\ \E n \in DOMAIN topo.adj : DOMAIN tables.distances[n] # DOMAIN topo.adj

\* host is reachable from switch under the failure list.
Reachable(switch, host) == host \in DOMAIN tables.distances[switch]

\* C11: unreachable destinations are contained.  When the failure list
\* disconnects some node pairs, the recomputation does not raise; the
\* next-hop lists hold an entry for exactly the reachable (switch, host)
\* pairs; and the installation writes a primary port for every reachable pair
\* and a backup port for every reachable pair whose next hop is not the host.
C11_UnreachableContained ==
  Disconnected =>
    /\ stage # "raised_lfas"
    /\ \A switch \in topo.switches : \A host \in topo.hosts :
         Reachable(switch, host) <=> (\E d \in Destinations(switch) : d[1] = host)
    /\ stage = "installed" =>
         \A switch \in topo.switches : \A d \in Destinations(switch) :
           /\ registers[switch].primaryNH[get_nexthop_index(topo, d[1])]
                = get_port(topo, switch, d[2])
           /\ d[1] # d[2] =>
                registers[switch].alternativeNH[get_nexthop_index(topo, d[1])] # 0

\* The failure list without the edges that are not in the topology.
KnownFailures == SelectSeq(failures, LAMBDA f : HasEdge(topo, f))

\* C12: excluding failed edges tolerates unknown edges.  When the failure
\* list holds an edge that is not in the topology, dijkstra raises no error
\* and returns what it returns for the list without that edge.
C12_UnknownEdgesTolerated ==
  (stage # "start" /\ KnownFailures # failures) =>
    /\ stage # "raised_nexthops"
    /\ tables = dijkstra(topo, KnownFailures)

\* C13: the base topology is never mutated.  No step, and so no
\* recomputation with whatever failure list, changes self.topo: its nodes,
\* edges and weights are those of the topology loaded at start-up.  (A
\* recomputation reads nothing else but its failure list, so a later one
\* with the list F works on the same graph as a first one with F.)
C13_BaseTopologyNeverMutated ==
  /\ [] (topo \in CtrlTopologies)
  /\ [][/\ topo'.switches = topo.switches
        /\ topo'.hosts = topo.hosts
        /\ topo'.adj = topo.adj
        /\ topo'.w = topo.w]_vars

\* Two recomputations with failures have run, and every failed link is still
\* an edge of self.topo.
C13_Witness ==
  /\ Len(calls) = 3
  /\ pc = "crashed"
  /\ failed_links # {}
  /\ failed_links \subseteq DOMAIN topo.w

\* C14: the terminal case.  The primary next hop of (switch, host) is the
\* host only when a link that has not failed joins switch and host; for such
\* a pair compute_lfas holds no alternate and the installation leaves the
\* alternativeNH cell of the host as it was (0 after reset_states).
C14_TerminalCase ==
  HasNexthops =>
    \A switch \in DOMAIN nexthops : \A d \in Destinations(switch) :
      d[2] = d[1] =>
        /\ SortedPair(switch, d[1]) \in (DOMAIN topo.w) \ FailureSet
        /\ HasLfas => d[1] \notin DOMAIN lfas[switch]
        /\ stage = "installed" =>
             registers[switch].alternativeNH[get_nexthop_index(topo, d[1])] = 0

\* A plan with a failed link is installed: a switch has its own host as a
\* destination and a backup written for the other host.
C14_Witness ==
  /\ stage = "installed"
  /\ FailureSet # {}
  /\ \E switch \in DOMAIN nexthops :
       /\ \E d \in Destinations(switch) : d[2] = d[1]
       /\ \E idx \in DOMAIN registers[switch].alternativeNH :
            registers[switch].alternativeNH[idx] # 0

\* C15: the fallback when there is no LFA.  For every (switch, host) of the
\* next-hop lists whose next hop is not the host and for which no candidate
\* satisfies the loop-free inequality, the recomputation raises no error and
\* the installation writes the port of the primary next hop to both
\* primaryNH and alternativeNH of the host.
C15_NoLfaFallback ==
  stage \in {"lfas", "installed", "raised_lfas"} =>
    \A switch \in DOMAIN nexthops : \A d \in Destinations(switch) :
      (d[1] # d[2] /\ LoopFreeCandidates(switch, d[1], d[2]) = {}) =>
        /\ stage # "raised_lfas"
        /\ stage = "installed" =>
             /\ registers[switch].alternativeNH[get_nexthop_index(topo, d[1])]
                  = get_port(topo, switch, d[2])
             /\ registers[switch].primaryNH[get_nexthop_index(topo, d[1])]
                  = get_port(topo, switch, d[2])

\* The same for the runs in which compute_lfas returns.
C15_NoLfaFallbackWhenReturned ==
  stage = "installed" =>
    \A switch \in DOMAIN nexthops : \A d \in Destinations(switch) :
      (d[1] # d[2] /\ LoopFreeCandidates(switch, d[1], d[2]) = {}) =>
        /\ registers[switch].alternativeNH[get_nexthop_index(topo, d[1])]
             = get_port(topo, switch, d[2])
        /\ registers[switch].primaryNH[get_nexthop_index(topo, d[1])]
             = get_port(topo, switch, d[2])

\* C17: the ring scenario.  In the ring S1-S2-S3-S1 with one host per switch
\* and all weights 1, without failures the primary next hop of s1 toward h2
\* (the host of s2) is s2 and the distance from s1 to s2 is 1; with the
\* failure of (s1, s2) the next hop is s3 and the distance is 2, and the
\* port toward s3 is what the installation writes.
C17_RingScenario ==
  (topo = RingHosts /\ HasNexthops) =>
    /\ failures = <<>> =>
         /\ Primary("s1", "h2") = "s2"
         /\ tables.distances["s1"]["s2"] = 1
    /\ failures = <<<<"s1", "s2">>>> =>
         /\ Primary("s1", "h2") = "s3"
         /\ tables.distances["s1"]["s2"] = 2
         /\ tables.paths["s1"]["h2"] = <<"s1", "s3", "s2", "h2">>
         /\ stage = "installed" =>
              registers["s1"].primaryNH[get_nexthop_index(topo, "h2")]
                = get_port(topo, "s1", "s3")

\* The plan for the ring with (s1, s2) failed is installed.
C17_Witness ==
  /\ topo = RingHosts
  /\ failures = <<<<"s1", "s2">>>>
  /\ stage = "installed"

\* The links of the topology that have not failed.
LiveLinks == (DOMAIN topo.w) \ FailureSet

\* The least element of a set of numbers.
Least(S) == CHOOSE x \in S : \A y \in S : x <= y

\* The least weight of a walk of at most k live links from a to every node
\* such a walk reaches (Bellman-Ford; no entry for the other nodes).
RECURSIVE WalkDist(_, _)
WalkDist(a, k) ==
  IF k = 0 THEN (a :> 0)
  ELSE LET prev == WalkDist(a, k - 1)
           cand(m) ==
             {prev[n] + topo.w[SortedPair(n, m)] :
                n \in {x \in DOMAIN prev : SortedPair(x, m) \in LiveLinks}}
             \cup (IF m \in DOMAIN prev THEN {prev[m]} ELSE {})
       IN Evaluated([m \in {x \in DOMAIN topo.adj : cand(x) # {}} |->
                       Least(cand(m))])

\* d_F: the distances in the topology without the failed links, between
\* every host and every node (the links are undirected: d_F(n, h) is
\* HostDist[h][n]).
HostDist ==
  Evaluated([h \in topo.hosts |->
               WalkDist(h, Cardinality(DOMAIN topo.adj) - 1)])

\* C18: the primary next hop is the first hop of a shortest path.  For a
\* failure list of links of the topology compute_nexthops returns, and for
\* every switch s and host h: when h is reachable from s without the failed
\* links, the list of s has exactly one entry (h, nh), nh is joined to s by
\* a link that has not failed, and w(s, nh) + d_F(nh, h) = d_F(s, h); when h
\* is unreachable the list has no entry for h.
C18_PrimaryIsShortestFirstHop ==
  /\ (stage # "start" /\ FailureSet \subseteq DOMAIN topo.w) => HasNexthops
  /\ stage = "nexthops" =>
       \E d \in {HostDist} :
         \A s \in topo.switches : \A h \in topo.hosts :
           LET entries == {k \in 1..Len(nexthops[s]) : nexthops[s][k][1] = h}
           IN IF s \in DOMAIN d[h]
              THEN /\ Cardinality(entries) = 1
                   /\ \A k \in entries :
                        LET nh == nexthops[s][k][2]
                        IN /\ SortedPair(s, nh) \in LiveLinks
                           /\ nh \in DOMAIN d[h]
                           /\ topo.w[SortedPair(s, nh)] + d[h][nh] = d[h][s]
              ELSE entries = {}

\* A link has failed and the next hop of some switch toward a host it still
\* reaches is another than without the failure.
C18_Witness ==
  /\ stage = "nexthops"
  /\ FailureSet # {}
  /\ FailureSet \subseteq DOMAIN topo.w
  /\ \E s \in topo.switches : \E h \in topo.hosts :
       /\ h \in DOMAIN tables.distances[s]
       /\ Primary(s, h) # dijkstra(topo, <<>>).paths[s][h][2]

\* A link has failed and some switch no longer reaches some host.
C18_WitnessUnreachable ==
  /\ stage = "nexthops"
  /\ FailureSet \subseteq DOMAIN topo.w
  /\ \E s \in topo.switches : \E h \in topo.hosts :
       h \notin DOMAIN tables.distances[s]

\* C19: a backup next hop never uses a link known to have failed.  For every
\* alternate compute_lfas returns for (switch, host), the link between switch
\* and the alternate is not in the failure list.
C19_BackupAvoidsFailedLinks ==
  HasLfas =>
    \A switch \in DOMAIN lfas : \A host \in DOMAIN lfas[switch] :
      SortedPair(switch, lfas[switch][host]) \notin FailureSet

\* The nodes a packet for host visits from node n on, in order, following
\* the primary next hops for at most k hops.
RECURSIVE Walk(_, _, _)
Walk(n, host, k) ==
  IF n = host \/ k = 0 THEN <<n>>
  ELSE <<n>> \o Walk(Primary(n, host), host, k - 1)

\* C20: primary forwarding is loop-free.  From every switch, following the
\* primary next hops toward a host the switch reaches under the failure list
\* ends at the host and visits no node twice.
C20_PrimaryForwardingLoopFree ==
  HasNexthops =>
    \A s \in topo.switches : \A h \in topo.hosts :
      h \in DOMAIN tables.distances[s] =>
        \E walk \in {Walk(s, h, Cardinality(DOMAIN topo.adj))} :
          /\ walk[Len(walk)] = h
          /\ \A i, j \in 1..Len(walk) : walk[i] = walk[j] => i = j

\* A link has failed and a packet takes three hops or more to its host.
C20_Witness ==
  /\ HasNexthops
  /\ FailureSet # {}
  /\ \E s \in topo.switches : \E h \in topo.hosts :
       /\ h \in DOMAIN tables.distances[s]
       /\ Len(Walk(s, h, Cardinality(DOMAIN topo.adj))) >= 4

\* A packet crosses two links of weight 0 on its way to its host.
C20_WitnessZeroWeight ==
  /\ HasNexthops
  /\ \E s \in topo.switches : \E h \in topo.hosts :
       /\ h \in DOMAIN tables.distances[s]
       /\ \E walk \in {Walk(s, h, Cardinality(DOMAIN topo.adj))} :
            /\ Len(walk) >= 4
            /\ topo.w[SortedPair(walk[1], walk[2])] = 0
            /\ topo.w[SortedPair(walk[2], walk[3])] = 0

====
